---- MODULE Spec2Model ----
(***************************************************************************)
(* Intraday live-market-data synchronisation of the dashboard:             *)
(*   useTodayWindow / computeTodayWindow   (src/lib/hooks/useMLPrediction.ts)*)
(*   useLiveTicks                          (src/unnamed/part_014)          *)
(*   useTodayLiveSeries                    (src/lib/hooks/useMLPrediction.ts)*)
(* called from SymbolsPage                 (src/unnamed/part_002).         *)
(*                                                                         *)
(* The hooks run on React's single thread.  A render reads the hook state  *)
(* and the props and produces the hook outputs (the snapshot `rend` and the *)
(* merged series `data`); the effects of a committed render run afterwards *)
(* (action Effects) with the values that render captured, and only those   *)
(* whose dependency list changed since they last ran (`deps`).  Timer      *)
(* callbacks, socket events and promise continuations are separate steps.  *)
(*                                                                         *)
(* Instants are milliseconds since the Unix epoch, as Date.now() returns   *)
(* them.  An ISO-8601 string is the record [iso |-> ms] of the instant it  *)
(* denotes (toISOString has millisecond precision).                        *)
(***************************************************************************)
EXTENDS Integers, Sequences, FiniteSets, TLC

\* ------------------------------------------------------------ constants
THROTTLE_MS == 1000
REFRESH_MS == 30000
COOLDOWN_MS == 60000
DAY_MS == 86400000
\* Asia/Kolkata is UTC+05:30 all year.
IST_OFFSET_MS == 19800000
\* Date.UTC(y, m - 1, d, 3, 45, 0): 03:45 after UTC midnight.
OPEN_UTC_MS == 13500000

\* The source keeps 30000 points; the cap is scaled down so that the model
\* can overflow it.
MAX_POINTS == 2

\* ------------------------------------------------------------ bounds
\* Steps of SmallStep, and steps of BigStep, the clock may take.
MaxSmallSteps == 4
MaxBigSteps == 2

SmallStep == THROTTLE_MS \div 2
BigStep == REFRESH_MS
\* The first instant: 61 s before midnight in Kolkata (18:30 UTC) of the
\* fifth day of the epoch, so that both the cooldown and the day rollover
\* are within reach of the clock.
StartMs == 4 * DAY_MS + (DAY_MS - IST_OFFSET_MS) - (COOLDOWN_MS + THROTTLE_MS)

Null == [null |-> TRUE]
NoDeps == [nodeps |-> TRUE]
Symbols == {"", "A", "B"}

VARIABLES
    now,          \* Date.now()
    mounted,      \* the view that owns the hooks is mounted
    symbol,       \* prop: the caller's symbol
    enabled,      \* prop: liveEnabled
    baseSeries,   \* prop: ohlcvQ.data?.data as of the last render
    rend,         \* what the last committed render captured
    deps,         \* the dependencies the effects last ran with
    dirty,        \* a state update is waiting for a render
    data,         \* useTodayLiveSeries().data of the last render
    todayWindow,  \* useTodayWindow: state
    timerOn,      \* useTodayWindow: the interval is set
    timerDue,     \* useTodayWindow: when the interval fires next
    points,       \* useLiveTicks: state
    wsRef,        \* useLiveTicks: index into sockets, 0 for null
    lastEmitMs,   \* useLiveTicks: lastEmitMsRef
    sockets,      \* the WebSockets the hook constructed (see Compact)
    nAccepted,    \* bars accepted on the current connection (history)
    backfillError,\* useTodayLiveSeries: state
    lastBackfill, \* useTodayLiveSeries: lastBackfillRef
    inflight,     \* the marketDataApi.fetch calls that have not settled
    lastFetch,    \* the marketDataApi.fetch issued last (history)
    prevFetch,    \* the one issued before it (history)
    refetchCalls  \* the calls of refetchBase the last step made, each with
                  \* the fetch and the outcome it followed (history)

vars == <<now, mounted, symbol, enabled, baseSeries, rend, deps, dirty, data,
          todayWindow, timerOn, timerDue, points, wsRef, lastEmitMs, sockets,
          nAccepted, backfillError, lastBackfill, inflight, lastFetch, prevFetch,
          refetchCalls>>

\* ------------------------------------------------------------ helpers
ToISOString(ms) == [iso |-> ms]
GetTime(ts) == ts.iso

\* (symbol || '').trim().toUpperCase()
Norm(s) ==
    CASE s = "" -> ""
      [] s = " " -> ""
      [] s = "a" -> "A"
      [] OTHER -> s

\* The calendar day of the instant in UTC.
IstDayUtc(ms) == ms \div DAY_MS

\* The calendar day in Kolkata that holds the instant, as days since the
\* epoch: Asia/Kolkata is UTC+05:30 with no daylight saving.
IstDay(ms) == (ms + IST_OFFSET_MS) \div DAY_MS

\* The proleptic Gregorian date of a day of the epoch: what formatToParts
\* reports as year, month and day.
CivilFromDays(z) ==
    LET z1 == z + 719468
        era == z1 \div 146097
        doe == z1 - era * 146097
        yoe == (doe - doe \div 1460 + doe \div 36524 - doe \div 146096) \div 365
        doy == doe - (365 * yoe + yoe \div 4 - yoe \div 100)
        mp == (5 * doy + 2) \div 153
        m == IF mp < 10 THEN mp + 3 ELSE mp - 9
    IN  [year |-> yoe + era * 400 + (IF m <= 2 THEN 1 ELSE 0),
         month |-> m,
         day |-> doy - (153 * mp + 2) \div 5 + 1]

\* Intl.DateTimeFormat('en-CA', { timeZone: 'Asia/Kolkata', ... })
\*   .formatToParts(new Date()), read back with Number().
FormatToParts(ms) == CivilFromDays(IstDay(ms))

\* The day of the epoch of Date.UTC(y, monthIndex, d): months count from 0.
DaysFromCivil(y, monthIndex, d) ==
    LET m == monthIndex + 1
        y1 == IF m <= 2 THEN y - 1 ELSE y
        era == y1 \div 400
        yoe == y1 - era * 400
        doy == (153 * (IF m > 2 THEN m - 3 ELSE m + 9) + 2) \div 5 + d - 1
        doe == yoe * 365 + yoe \div 4 - yoe \div 100 + doy
    IN  era * 146097 + doe - 719468

\* String(n).padStart(2, '0'), kept as it comes.
PadStartNone(str) == str

\* String(n).padStart(2, '0')
PadStart2(str) == IF Len(str) < 2 THEN "0" \o str ELSE str

ComputeTodayWindow(ms) ==
    LET parts == FormatToParts(ms)
        y == parts.year
        m == parts.month
        d == parts.day
        openUtcMs == DaysFromCivil(y, m - 1, d) * DAY_MS + OPEN_UTC_MS
    IN  [key |-> ToString(y) \o "-" \o PadStart2(ToString(m)) \o "-"
                    \o PadStart2(ToString(d)),
         fromMs |-> openUtcMs,
         toMs |-> ms]


\* ------------------------------------------------------------ the merge
\* Array.prototype.sort is stable: an element goes after every element that
\* does not compare greater than it.
RECURSIVE InsertByTime(_, _)
InsertByTime(x, s) ==
    IF s = <<>> THEN <<x>>
    ELSE IF GetTime(x.timestamp) - GetTime(Head(s).timestamp) < 0
         THEN <<x>> \o s
         ELSE <<Head(s)>> \o InsertByTime(x, Tail(s))

RECURSIVE SortByTimeFrom(_, _)
SortByTimeFrom(done, rest) ==
    IF rest = <<>> THEN done
    ELSE SortByTimeFrom(InsertByTime(Head(rest), done), Tail(rest))

\* merged.sort((a, b) => new Date(a.timestamp).getTime() - ...)
SortByTime(s) == SortByTimeFrom(<<>>, s)

\* A merge that sorts whether live mode is on or off.
MergeAlways(base0, en, livePoints) ==
    LET base == IF base0 = Null THEN <<>> ELSE base0.bars
    IN  IF Len(livePoints) = 0 THEN base
        ELSE SortByTime(base \o livePoints)

\* A merge that drops, after sorting, a bar whose timestamp the bar before
\* it has.
MergeDistinct(base0, en, livePoints) ==
    LET base == IF base0 = Null THEN <<>> ELSE base0.bars
        all == SortByTime(base \o livePoints)
        keep == {i \in DOMAIN all :
                    i = 1 \/ GetTime(all[i].timestamp) # GetTime(all[i - 1].timestamp)}
        Pick(S) == CHOOSE i \in S : \A j \in S : i <= j
        Nth[k \in 1..Cardinality(keep)] ==
            IF k = 1 THEN Pick(keep)
            ELSE Pick({i \in keep : i > Nth[k - 1]})
    IN  IF ~en THEN base
        ELSE IF Len(livePoints) = 0 THEN base
        ELSE [k \in 1..Cardinality(keep) |-> all[Nth[k]]]

\* A merge that lets a live bar replace the historical bar of its timestamp.
MergeReplacing(base0, en, livePoints) ==
    LET base == IF base0 = Null THEN <<>> ELSE base0.bars
        kept == SelectSeq(base, LAMBDA b :
                    \A i \in DOMAIN livePoints :
                        GetTime(livePoints[i].timestamp) # GetTime(b.timestamp))
    IN  IF ~en THEN base
        ELSE IF Len(livePoints) = 0 THEN base
        ELSE SortByTime(kept \o livePoints)

\* A merge that puts the live bars first.
MergeLiveFirst(base0, en, livePoints) ==
    LET base == IF base0 = Null THEN <<>> ELSE base0.bars
    IN  IF ~en THEN base
        ELSE IF Len(livePoints) = 0 THEN base
        ELSE SortByTime(livePoints \o base)

\* The useMemo of useTodayLiveSeries.  baseSeries is Null (null or
\* undefined) or [bars |-> the array].
Merge(base0, en, livePoints) ==
    LET base == IF base0 = Null THEN <<>> ELSE base0.bars
    IN  IF ~en THEN base
        ELSE IF Len(livePoints) = 0 THEN base
        ELSE SortByTime(base \o livePoints)

\* ------------------------------------------------------------ the caller
\* A historical bar the backend returned for a symbol.
HistBar(sym, ms) ==
    [timestamp |-> ToISOString(ms), open |-> 10, high |-> 12, low |-> 9,
     close |-> 11, volume |-> 500, src |-> "hist", sym |-> sym]

\* What useOHLCV can hand to a render for a symbol: nothing yet, or the
\* series cached under the query key, which holds the symbol.  The query
\* is disabled for an empty symbol.
BaseChoices(sym) ==
    IF sym = "" THEN {Null}
    ELSE {Null, [bars |-> <<HistBar(sym, StartMs - BigStep)>>]}

\* One render: the component reads props and hook state.
RenderWith(sym, en) ==
    /\ \E b \in BaseChoices(sym) :
          /\ baseSeries' = b
          /\ data' = Merge(b, en, points)
    /\ rend' = [symbol |-> sym, enabled |-> en, window |-> todayWindow]
    /\ dirty' = FALSE

EffectsFlushed == deps = rend

\* setSymbol of the caller, and the render it causes.
SetSymbol(s) ==
    /\ mounted /\ EffectsFlushed
    /\ s # symbol
    /\ symbol' = s
    /\ RenderWith(s, enabled)
    /\ UNCHANGED <<now, mounted, enabled, deps, todayWindow, timerOn, timerDue,
                   points, wsRef, lastEmitMs, sockets, nAccepted,
                   backfillError, lastBackfill, inflight, lastFetch, prevFetch>>
    /\ refetchCalls' = <<>>

\* The caller turns live mode on or off, and the render it causes.
ToggleLive ==
    /\ mounted /\ EffectsFlushed
    /\ enabled' = ~enabled
    /\ RenderWith(symbol, ~enabled)
    /\ UNCHANGED <<now, mounted, symbol, deps, todayWindow, timerOn, timerDue,
                   points, wsRef, lastEmitMs, sockets, nAccepted,
                   backfillError, lastBackfill, inflight, lastFetch, prevFetch>>
    /\ refetchCalls' = <<>>

\* A render caused by a state update of a hook.
Render ==
    /\ mounted /\ EffectsFlushed /\ dirty
    /\ RenderWith(symbol, enabled)
    /\ UNCHANGED <<now, mounted, symbol, enabled, deps, todayWindow, timerOn,
                   timerDue, points, wsRef, lastEmitMs, sockets, nAccepted,
                   backfillError, lastBackfill, inflight, lastFetch, prevFetch>>
    /\ refetchCalls' = <<>>

\* The query of useOHLCV got new data (a fetch or refetch resolved).
QueryUpdate ==
    /\ mounted /\ ~dirty
    /\ dirty' = TRUE
    /\ UNCHANGED <<now, mounted, symbol, enabled, baseSeries, rend, deps, data,
                   todayWindow, timerOn, timerDue, points, wsRef, lastEmitMs,
                   sockets, nAccepted, backfillError, lastBackfill, inflight, lastFetch, prevFetch>>
    /\ refetchCalls' = <<>>


\* ------------------------------------------------------------ useLiveTicks
\* A cleanup that closes an open socket only.
CloseIfOpen(socks, ref) ==
    IF ref # 0 /\ socks[ref].readyState = "OPEN"
    THEN [socks EXCEPT ![ref].readyState = "CLOSING"]
    ELSE socks

\* A cleanup that drops the reference and closes nothing.
CloseNothing(socks, ref) == socks

\* cleanup(): close the socket wsRef holds, if it is open or connecting.
CloseIfLive(socks, ref) ==
    IF ref # 0 /\ socks[ref].readyState \in {"OPEN", "CONNECTING"}
    THEN [socks EXCEPT ![ref].readyState = "CLOSING"]
    ELSE socks

\* A socket that is closing or closed fires no handler that does anything;
\* once wsRef no longer holds it, it is dropped from the record.  Compact
\* keeps the sockets that are open or connecting and the one wsRef holds.
RECURSIVE KeptBefore(_, _, _)
KeptBefore(socks, ref, i) ==
    IF i = 0 THEN 0
    ELSE KeptBefore(socks, ref, i - 1)
         + (IF i = ref \/ socks[i].readyState \in {"OPEN", "CONNECTING"}
            THEN 1 ELSE 0)

RECURSIVE KeptSockets(_, _, _)
KeptSockets(socks, ref, i) ==
    IF i > Len(socks) THEN <<>>
    ELSE (IF i = ref \/ socks[i].readyState \in {"OPEN", "CONNECTING"}
          THEN <<socks[i]>> ELSE <<>>) \o KeptSockets(socks, ref, i + 1)

CompactSockets(socks, ref) == KeptSockets(socks, ref, 1)
CompactRef(socks, ref) == KeptBefore(socks, ref, ref)

\* The effect connects (it returns early otherwise).
Connects(sym, en) == en /\ Norm(sym) # ""

\* Number(lpRaw), for what JSON can carry: a number is itself, null and ''
\* convert to 0, a numeric string to its number, anything else to NaN.
NaN == [nan |-> TRUE]
ToNumber(lpRaw) ==
    CASE lpRaw = [undef |-> TRUE] -> NaN
      [] lpRaw = Null -> [num |-> 0]
      [] "num" \in DOMAIN lpRaw -> lpRaw
      [] lpRaw = [str |-> ""] -> [num |-> 0]
      [] lpRaw = [str |-> "2"] -> [num |-> 2]
      [] OTHER -> NaN

\* The messages a socket may deliver at an instant.
Messages(nowMs) ==
    { [parses |-> FALSE],
      [parses |-> TRUE, type |-> "status", received_at |-> Null,
       ticks |-> <<[last_price |-> [num |-> 1]]>>],
      [parses |-> TRUE, type |-> "ticks", received_at |-> Null, ticks |-> <<>>],
      [parses |-> TRUE, type |-> "ticks", received_at |-> Null,
       ticks |-> <<[last_price |-> [str |-> "abc"]]>>],
      [parses |-> TRUE, type |-> "ticks", received_at |-> Null,
       ticks |-> <<[last_price |-> [num |-> 1]]>>],
      [parses |-> TRUE, type |-> "ticks",
       received_at |-> ToISOString(nowMs - SmallStep),
       ticks |-> <<[last_price |-> [num |-> 2]], [last_price |-> [num |-> 1]]>>] }

\* (tick as any).last_price of a tick record: undefined when it has none.
LastPrice(tick) ==
    IF "last_price" \in DOMAIN tick THEN tick.last_price ELSE [undef |-> TRUE]

\* Every message the transport can carry, by what onmessage tells apart: the
\* messages above, JSON null, no ticks field, a first tick with no
\* last_price, with null, with '' and with a numeric string.
AllMessages(nowMs) ==
    Messages(nowMs) \cup
    { [parses |-> TRUE, json |-> "null"],
      [parses |-> TRUE, type |-> "ticks", received_at |-> Null],
      [parses |-> TRUE, type |-> "ticks", received_at |-> Null,
       ticks |-> <<[instrument |-> "A"]>>],
      [parses |-> TRUE, type |-> "ticks", received_at |-> Null,
       ticks |-> <<[last_price |-> Null]>>],
      [parses |-> TRUE, type |-> "ticks", received_at |-> Null,
       ticks |-> <<[last_price |-> [str |-> ""]]>>],
      [parses |-> TRUE, type |-> "ticks", received_at |-> Null,
       ticks |-> <<[last_price |-> [str |-> "2"]]>>] }

\* The message passes the validation of onmessage.
Valid(m) ==
    /\ m.parses
    /\ "type" \in DOMAIN m /\ m.type = "ticks"
    /\ "ticks" \in DOMAIN m /\ Len(m.ticks) > 0
    /\ ToNumber(LastPrice(m.ticks[1])) # NaN

\* A throttle of half the window.
ThrottleOpenHalf(nowMs, last) == ~(nowMs - last < THROTTLE_MS \div 2)

\* nowMs - lastEmitMsRef.current < 1000 is false.
ThrottleOpen(nowMs, last) == ~(nowMs - last < THROTTLE_MS)

\* A cap that keeps the oldest bars.
CappedOldest(next) ==
    IF Len(next) > MAX_POINTS THEN SubSeq(next, 1, MAX_POINTS) ELSE next

\* The updater of setPoints.
Capped(next) ==
    IF Len(next) > MAX_POINTS
    THEN SubSeq(next, Len(next) - MAX_POINTS + 1, Len(next))
    ELSE next

\* The bar of an accepted message.  sym, acc and n are history: the symbol
\* of the socket that delivered it, Date.now() at acceptance, its rank among
\* the bars accepted since the effect last ran.
LiveBar(m, nowMs, sym, n) ==
    LET lp == ToNumber(LastPrice(m.ticks[1])).num
    IN  [timestamp |-> IF m.received_at # Null THEN m.received_at
                       ELSE ToISOString(nowMs),
         open |-> lp, high |-> lp, low |-> lp, close |-> lp, volume |-> Null,
         src |-> "live", sym |-> sym, acc |-> nowMs, n |-> n]

\* A handler that does not look at the throttle.
AcceptsValid(m) == Valid(m)

\* The message passes the validation and the throttle.
Accepts(m) == Valid(m) /\ ThrottleOpen(now, lastEmitMs)

\* ws.onmessage of socket i.
OnMessage(i, m) ==
    /\ sockets[i].readyState = "OPEN"
    /\ IF Accepts(m)
       THEN /\ lastEmitMs' = now
            /\ nAccepted' = nAccepted + 1
            /\ points' = IF mounted
                         THEN Capped(Append(points,
                                     LiveBar(m, now, sockets[i].sym, nAccepted + 1)))
                         ELSE points
            /\ dirty' = (dirty \/ mounted)
       ELSE UNCHANGED <<lastEmitMs, nAccepted, points, dirty>>
    /\ UNCHANGED <<now, mounted, symbol, enabled, baseSeries, rend, deps, data,
                   todayWindow, timerOn, timerDue, wsRef, sockets,
                   backfillError, lastBackfill, inflight, lastFetch, prevFetch>>
    /\ refetchCalls' = <<>>

\* The transport opened the connection.
SocketOpen(i) ==
    /\ sockets[i].readyState = "CONNECTING"
    /\ sockets' = [sockets EXCEPT ![i].readyState = "OPEN"]
    /\ UNCHANGED <<now, mounted, symbol, enabled, baseSeries, rend, deps, dirty,
                   data, todayWindow, timerOn, timerDue, points, wsRef,
                   lastEmitMs, nAccepted, backfillError, lastBackfill, inflight, lastFetch, prevFetch>>
    /\ refetchCalls' = <<>>

\* An onclose that opens a new connection for the same symbol.
SocketFailReconnects(i) ==
    /\ sockets[i].readyState \in {"CONNECTING", "OPEN"}
    /\ sockets' = Append([sockets EXCEPT ![i].readyState = "CLOSED"],
                         [sym |-> sockets[i].sym, readyState |-> "CONNECTING"])
    /\ wsRef' = Len(sockets) + 1
    /\ UNCHANGED <<now, mounted, symbol, enabled, baseSeries, rend, deps, dirty,
                   data, todayWindow, timerOn, timerDue, points,
                   lastEmitMs, nAccepted, backfillError, lastBackfill, inflight,
                   lastFetch, prevFetch>>
    /\ refetchCalls' = <<>>

\* The transport failed or the server closed: onerror and onclose do nothing.
SocketFail(i) ==
    /\ sockets[i].readyState \in {"CONNECTING", "OPEN"}
    /\ sockets' = [sockets EXCEPT ![i].readyState = "CLOSED"]
    /\ UNCHANGED <<now, mounted, symbol, enabled, baseSeries, rend, deps, dirty,
                   data, todayWindow, timerOn, timerDue, points, wsRef,
                   lastEmitMs, nAccepted, backfillError, lastBackfill, inflight, lastFetch, prevFetch>>
    /\ refetchCalls' = <<>>


\* ------------------------------------------------------------ useTodayLiveSeries
\* A decision that always fetches.
ShouldRunAlways(last, sym, key, nowMs) == TRUE

\* A decision that does not look at the symbol of the marker.
ShouldRunNoSymbol(last, sym, key, nowMs) ==
    \/ last = Null
    \/ last.key # key
    \/ (nowMs - last.atMs) > COOLDOWN_MS

\* A cooldown that ends at 60 s, not after it.
ShouldRunAtCooldown(last, sym, key, nowMs) ==
    \/ last = Null
    \/ last.symbol # sym
    \/ last.key # key
    \/ (nowMs - last.atMs) >= COOLDOWN_MS

\* shouldRun of the backfill effect.
ShouldRun(last, sym, key, nowMs) ==
    \/ last = Null
    \/ last.symbol # sym
    \/ last.key # key
    \/ (nowMs - last.atMs) > COOLDOWN_MS

\* The backfill effect goes past its first return.
Evaluates(sym, en, w) == en /\ sym # "" /\ w # Null

\* The backfill effect issues a fetch.
Triggers(sym, en, w) ==
    Evaluates(sym, en, w) /\ ShouldRun(lastBackfill, sym, w.key, now)

\* No marker is written when the fetch is triggered.
MarkerNone(sym, w, nowMs) == Null

\* A marker that keeps the time of the first fetch.
MarkerFirstTime(sym, w, nowMs) ==
    [symbol |-> sym, key |-> w.key,
     atMs |-> IF lastBackfill = Null THEN nowMs ELSE lastBackfill.atMs]

\* lastBackfillRef.current = { symbol, key: window.key, atMs: nowMs }
Marker(sym, w, nowMs) == [symbol |-> sym, key |-> w.key, atMs |-> nowMs]

\* The payload of marketDataApi.fetch; atMs is history, the instant the
\* request was issued.
NewFetch(sym, w, nowMs) ==
    [symbol |-> sym, key |-> w.key, atMs |-> nowMs, from_date |-> w.fromMs,
     to_date |-> w.toMs]

\* What the continuation of a pending request knows of it.  Pending requests
\* for the same symbol and day are one entry, which settles once: their
\* continuations are the same code over the same values.
Pending(f) == [symbol |-> f.symbol, key |-> f.key]

\* ------------------------------------------------------------ the effects
WinRuns == deps = NoDeps \/ deps.enabled # rend.enabled
LiveRuns == deps = NoDeps \/ deps.symbol # rend.symbol \/ deps.enabled # rend.enabled
BackfillRuns ==
    \/ deps = NoDeps
    \/ deps.enabled # rend.enabled
    \/ deps.symbol # rend.symbol
    \/ deps.window # rend.window

\* An effect that returns without a cleanup: the interval of the previous
\* run is not cleared when live mode goes off.
WindowEffectNoCleanup ==
    IF WinRuns
    THEN /\ todayWindow' = IF rend.enabled THEN ComputeTodayWindow(now) ELSE Null
         /\ timerOn' = (timerOn \/ rend.enabled)
         /\ timerDue' = IF rend.enabled THEN now + REFRESH_MS ELSE timerDue
    ELSE UNCHANGED <<todayWindow, timerOn, timerDue>>

\* The effect of useTodayWindow: clear the interval of the previous run,
\* then publish null, or publish a window and set the interval.
WindowEffect ==
    IF WinRuns
    THEN /\ todayWindow' = IF rend.enabled THEN ComputeTodayWindow(now) ELSE Null
         /\ timerOn' = rend.enabled
         /\ timerDue' = IF rend.enabled THEN now + REFRESH_MS ELSE 0
    ELSE UNCHANGED <<todayWindow, timerOn, timerDue>>

\* The effect of useLiveTicks: the cleanup the previous run returned (if it
\* connected), then the body.
LiveEffect ==
    IF LiveRuns
    THEN LET hadCleanup == deps # NoDeps /\ Connects(deps.symbol, deps.enabled)
             socks1 == IF hadCleanup THEN CloseIfLive(sockets, wsRef) ELSE sockets
             ref1 == IF hadCleanup THEN 0 ELSE wsRef
             socks2 == IF Connects(rend.symbol, rend.enabled)
                       THEN Append(socks1, [sym |-> Norm(rend.symbol),
                                            readyState |-> "CONNECTING"])
                       ELSE CloseIfLive(socks1, ref1)
             ref2 == IF Connects(rend.symbol, rend.enabled)
                     THEN Len(socks1) + 1 ELSE 0
         IN  /\ points' = <<>>
             /\ nAccepted' = 0
             /\ lastEmitMs' = IF Connects(rend.symbol, rend.enabled)
                              THEN 0 ELSE lastEmitMs
             /\ sockets' = CompactSockets(socks2, ref2)
             /\ wsRef' = CompactRef(socks2, ref2)
    ELSE UNCHANGED <<points, nAccepted, lastEmitMs, sockets, wsRef>>

\* The effect of useTodayLiveSeries.
BackfillEffect ==
    IF BackfillRuns
    THEN IF ~Evaluates(rend.symbol, rend.enabled, rend.window)
         THEN /\ backfillError' = Null
              /\ UNCHANGED <<lastBackfill, inflight, lastFetch, prevFetch>>
         ELSE IF Triggers(rend.symbol, rend.enabled, rend.window)
         THEN /\ lastBackfill' = Marker(rend.symbol, rend.window, now)
              /\ inflight' = inflight \cup
                                {Pending(NewFetch(rend.symbol, rend.window, now))}
              /\ lastFetch' = NewFetch(rend.symbol, rend.window, now)
              /\ prevFetch' = lastFetch
              /\ UNCHANGED backfillError
         ELSE UNCHANGED <<backfillError, lastBackfill, inflight, lastFetch, prevFetch>>
    ELSE UNCHANGED <<backfillError, lastBackfill, inflight, lastFetch, prevFetch>>

\* The effects of the last committed render, in the order of the hooks.
Effects ==
    /\ mounted /\ ~EffectsFlushed
    /\ WindowEffect
    /\ LiveEffect
    /\ BackfillEffect
    /\ deps' = rend
    /\ dirty' = (dirty \/ LiveRuns \/ todayWindow' # todayWindow
                       \/ backfillError' # backfillError)
    /\ UNCHANGED <<now, mounted, symbol, enabled, baseSeries, rend, data>>
    /\ refetchCalls' = <<>>

\* A callback of setTimeout: it runs once.
TimerFireOnce ==
    /\ timerOn /\ now >= timerDue
    /\ todayWindow' = ComputeTodayWindow(now)
    /\ timerOn' = FALSE
    /\ dirty' = TRUE
    /\ UNCHANGED <<now, mounted, symbol, enabled, baseSeries, rend, deps, data,
                   timerDue, points, wsRef, lastEmitMs, sockets, nAccepted,
                   backfillError, lastBackfill, inflight, lastFetch, prevFetch>>
    /\ refetchCalls' = <<>>

\* The interval callback of useTodayWindow.
TimerFire ==
    /\ timerOn /\ now >= timerDue
    /\ todayWindow' = ComputeTodayWindow(now)
    /\ timerDue' = now + REFRESH_MS
    /\ dirty' = TRUE
    /\ UNCHANGED <<now, mounted, symbol, enabled, baseSeries, rend, deps, data,
                   timerOn, points, wsRef, lastEmitMs, sockets, nAccepted,
                   backfillError, lastBackfill, inflight, lastFetch, prevFetch>>
    /\ refetchCalls' = <<>>

\* resp.error of a settled fetch: safePost never rejects.
Outcomes == {"ok", "error"}
ErrorOf(f) == [err |-> f.symbol]

\* A continuation that refreshes the cache only after a fetch without error.
FetchResolveOnSuccess(f, outcome) ==
    /\ f \in inflight
    /\ inflight' = inflight \ {f}
    /\ backfillError' = IF ~mounted THEN backfillError
                        ELSE IF outcome = "error" THEN ErrorOf(f) ELSE Null
    /\ dirty' = (dirty \/ backfillError' # backfillError)
    /\ UNCHANGED <<now, mounted, symbol, enabled, baseSeries, rend, deps, data,
                   todayWindow, timerOn, timerDue, points, wsRef, lastEmitMs,
                   sockets, nAccepted, lastBackfill, lastFetch, prevFetch>>
    /\ refetchCalls' = IF outcome = "ok"
                       THEN <<[fn |-> "refetchBase", fetch |-> f,
                               after |-> outcome]>>
                       ELSE <<>>

\* A continuation that sets the error of a failed fetch and never clears it.
FetchResolveSticky(f, outcome) ==
    /\ f \in inflight
    /\ inflight' = inflight \ {f}
    /\ backfillError' = IF ~mounted THEN backfillError
                        ELSE IF outcome = "error" THEN ErrorOf(f)
                        ELSE backfillError
    /\ dirty' = (dirty \/ backfillError' # backfillError)
    /\ UNCHANGED <<now, mounted, symbol, enabled, baseSeries, rend, deps, data,
                   todayWindow, timerOn, timerDue, points, wsRef, lastEmitMs,
                   sockets, nAccepted, lastBackfill, lastFetch, prevFetch>>
    /\ refetchCalls' = <<[fn |-> "refetchBase", fetch |-> f, after |-> outcome]>>

\* marketDataApi.fetch of request f settled: the continuation of the async
\* function sets backfillError in the try or the catch block and then, after
\* both, calls refetchBase once.  Setting the state of an unmounted view does
\* nothing.
FetchResolve(f, outcome) ==
    /\ f \in inflight
    /\ inflight' = inflight \ {f}
    /\ backfillError' = IF ~mounted THEN backfillError
                        ELSE IF outcome = "error" THEN ErrorOf(f) ELSE Null
    /\ dirty' = (dirty \/ backfillError' # backfillError)
    /\ UNCHANGED <<now, mounted, symbol, enabled, baseSeries, rend, deps, data,
                   todayWindow, timerOn, timerDue, points, wsRef, lastEmitMs,
                   sockets, nAccepted, lastBackfill, lastFetch, prevFetch>>
    /\ refetchCalls' = <<[fn |-> "refetchBase", fetch |-> f, after |-> outcome]>>

\* The view unmounts: the cleanups of the effects run.
Unmount ==
    /\ mounted /\ EffectsFlushed
    /\ mounted' = FALSE
    /\ timerOn' = FALSE
    /\ sockets' = CompactSockets(CloseIfLive(sockets, wsRef), 0)
    /\ wsRef' = 0
    /\ points' = <<>>
    /\ nAccepted' = 0
    /\ dirty' = FALSE
    /\ UNCHANGED <<now, symbol, enabled, baseSeries, rend, deps, data,
                   todayWindow, timerDue, lastEmitMs, backfillError,
                   lastBackfill, inflight, lastFetch, prevFetch>>
    /\ refetchCalls' = <<>>

\* ------------------------------------------------------------ the clock
SmallStepsTaken == (now - StartMs) \div SmallStep
BigStepsTaken == (now - StartMs) \div BigStep

\* Time passes by half a throttle window.  Only a mounted view reads the
\* clock.
AdvanceSmall ==
    /\ mounted
    /\ SmallStepsTaken < MaxSmallSteps
    /\ now' = now + SmallStep
    /\ UNCHANGED <<mounted, symbol, enabled, baseSeries, rend, deps, dirty, data,
                   todayWindow, timerOn, timerDue, points, wsRef, lastEmitMs,
                   sockets, nAccepted, backfillError, lastBackfill, inflight,
                   lastFetch, prevFetch>>
    /\ refetchCalls' = <<>>

\* Time passes by the refresh interval, exactly or with a delay of half a
\* throttle window.
AdvanceBig(late) ==
    /\ mounted
    /\ BigStepsTaken < MaxBigSteps
    /\ now' = now + BigStep + late
    /\ UNCHANGED <<mounted, symbol, enabled, baseSeries, rend, deps, dirty, data,
                   todayWindow, timerOn, timerDue, points, wsRef, lastEmitMs,
                   sockets, nAccepted, backfillError, lastBackfill, inflight,
                   lastFetch, prevFetch>>
    /\ refetchCalls' = <<>>

\* ------------------------------------------------------------ the system
\* The state after the first render of the view: no effect has run yet.
Init ==
    /\ now = StartMs
    /\ mounted = TRUE
    /\ symbol \in Symbols
    /\ enabled \in BOOLEAN
    /\ baseSeries = Null
    /\ rend = [symbol |-> symbol, enabled |-> enabled, window |-> Null]
    /\ deps = NoDeps
    /\ dirty = FALSE
    /\ data = <<>>
    /\ todayWindow = Null
    /\ timerOn = FALSE
    /\ timerDue = 0
    /\ points = <<>>
    /\ wsRef = 0
    /\ lastEmitMs = 0
    /\ sockets = <<>>
    /\ nAccepted = 0
    /\ backfillError = Null
    /\ lastBackfill = Null
    /\ inflight = {}
    /\ lastFetch = Null
    /\ prevFetch = Null
    /\ refetchCalls = <<>>

\* The live tick stream: the caller, the renders and effects, the transport
\* and the clock in steps below the throttle window.
NextTicks ==
    \/ \E s \in Symbols : SetSymbol(s)
    \/ ToggleLive
    \/ Render
    \/ QueryUpdate
    \/ Effects
    \/ \E i \in DOMAIN sockets : SocketOpen(i)
    \/ \E i \in DOMAIN sockets : SocketFail(i)
    \/ \E i \in DOMAIN sockets : \E m \in Messages(now) : OnMessage(i, m)
    \/ AdvanceSmall
    \/ Unmount

SpecTicks == Init /\ [][NextTicks]_vars

\* The backfill coordinator: the caller, the renders and effects, the
\* interval, the fetches and the clock; the transport stays silent.
NextBackfill ==
    \/ \E s \in Symbols : SetSymbol(s)
    \/ ToggleLive
    \/ Render
    \/ Effects
    \/ TimerFire
    \/ \E f \in inflight : \E o \in Outcomes : FetchResolve(f, o)
    \/ \E late \in {0, SmallStep} : AdvanceBig(late)
    \/ Unmount

SpecBackfill == Init /\ [][NextBackfill]_vars


\* ------------------------------------------------------------ the window alone
\* The window over the calendar: the view with live mode on and no symbol
\* chosen yet (nothing connects and nothing is fetched), and a clock
\* that jumps to any later instant among the first 24 days of the epoch
\* (what fits the integers of the checker), each at UTC midnight, at the
\* opening, one millisecond before and at midnight in Kolkata, and one
\* millisecond before UTC midnight.
WindowDays == {0, 1, 8, 9, 10, 22, 23}
TimesOfDay ==
    {0, OPEN_UTC_MS, DAY_MS - IST_OFFSET_MS - 1, DAY_MS - IST_OFFSET_MS,
     DAY_MS - 1}
WindowInstants == {d * DAY_MS + t : d \in WindowDays, t \in TimesOfDay}

InitWindow ==
    /\ now \in WindowInstants
    /\ mounted = TRUE
    /\ symbol = ""
    /\ enabled = TRUE
    /\ baseSeries = Null
    /\ rend = [symbol |-> symbol, enabled |-> enabled, window |-> Null]
    /\ deps = NoDeps
    /\ dirty = FALSE
    /\ data = <<>>
    /\ todayWindow = Null
    /\ timerOn = FALSE
    /\ timerDue = 0
    /\ points = <<>>
    /\ wsRef = 0
    /\ lastEmitMs = 0
    /\ sockets = <<>>
    /\ nAccepted = 0
    /\ backfillError = Null
    /\ lastBackfill = Null
    /\ inflight = {}
    /\ lastFetch = Null
    /\ prevFetch = Null
    /\ refetchCalls = <<>>

\* Time passes to a later instant.
ClockJump(t) ==
    /\ mounted
    /\ t > now
    /\ now' = t
    /\ UNCHANGED <<mounted, symbol, enabled, baseSeries, rend, deps, dirty, data,
                   todayWindow, timerOn, timerDue, points, wsRef, lastEmitMs,
                   sockets, nAccepted, backfillError, lastBackfill, inflight,
                   lastFetch, prevFetch>>
    /\ refetchCalls' = <<>>

NextWindow ==
    \/ Render
    \/ Effects
    \/ TimerFire
    \/ \E t \in WindowInstants : ClockJump(t)

SpecWindow == InitWindow /\ [][NextWindow]_vars

\* ------------------------------------------------------------ the messages alone
\* The stream with every kind of message: the view as the caller first
\* rendered it, its effects, the transport opening and delivering, and the
\* clock; the caller changes nothing and the transport does not fail.
NextMessages ==
    \/ Render
    \/ Effects
    \/ \E i \in DOMAIN sockets : SocketOpen(i)
    \/ \E i \in DOMAIN sockets : \E m \in AllMessages(now) : OnMessage(i, m)
    \/ AdvanceSmall

SpecMessages == Init /\ [][NextMessages]_vars

\* ------------------------------------------------------------ steps
\* The step is a run of the effects (only Effects changes deps).
EffectsStep == deps # rend /\ deps' = rend

\* The step issued a fetch with the payload of the committed render.
IssuedFetch ==
    /\ lastFetch' = [symbol |-> rend.symbol, key |-> rend.window.key,
                     atMs |-> now, from_date |-> rend.window.fromMs,
                     to_date |-> rend.window.toMs]
    /\ prevFetch' = lastFetch
    /\ [symbol |-> rend.symbol, key |-> rend.window.key] \in inflight'

\* The step issued no fetch.
IssuedNothing == UNCHANGED <<lastFetch, prevFetch, inflight>>

\* ------------------------------------------------------------ C1
\* C1: any two bars of the live buffer were accepted at client-clock times
\* at least 1000 ms apart, and a step appends a bar only when at least
\* 1000 ms have passed since the last accepted one: a message inside the
\* window changes neither the buffer nor the last-emit time, so nothing is
\* kept for later.
ThrottleSpacing ==
    \A i, j \in DOMAIN points :
        i < j => points[j].acc - points[i].acc >= THROTTLE_MS

AppendsOnlyOutsideWindow ==
    (points' # points /\ points' # <<>>)
        => (now - lastEmitMs >= THROTTLE_MS /\ lastEmitMs' = now)

InsideWindowNoEffect ==
    (now - lastEmitMs < THROTTLE_MS /\ deps' = deps /\ mounted' = mounted)
        => UNCHANGED <<points, lastEmitMs, nAccepted>>

C1_Throttle ==
    /\ []ThrottleSpacing
    /\ [][AppendsOnlyOutsideWindow /\ InsideWindowNoEffect]_vars

\* Two bars accepted exactly one throttle window apart, and the clock half a
\* window past the second.
C1_Witness ==
    /\ Len(points) = 2
    /\ points[2].acc - points[1].acc = THROTTLE_MS
    /\ now - lastEmitMs = SmallStep

\* ------------------------------------------------------------ C2
\* C2: the live buffer never holds more than MAX_POINTS bars; it holds the
\* min(accepted, MAX_POINTS) most recently accepted bars, in acceptance order.
C2_BufferBound ==
    /\ Len(points) <= MAX_POINTS
    /\ Len(points) = (IF nAccepted < MAX_POINTS THEN nAccepted ELSE MAX_POINTS)
    /\ \A i \in DOMAIN points : points[i].n = nAccepted - Len(points) + i

\* More bars were accepted than the buffer keeps.
C2_Witness == nAccepted > MAX_POINTS /\ Len(points) = MAX_POINTS


\* ------------------------------------------------------------ the merge alone
\* The merge as a function of its inputs: every historical series and every
\* live buffer of at most MaxBars bars over three instants, in any order
\* (the timestamps of both come from the backend).
MaxBars == 2
MergeInstants == {StartMs, StartMs + SmallStep, StartMs + 2 * SmallStep}

SeqsUpTo(S, n) == UNION {[1..k -> S] : k \in 0..n}

\* Historical series: bar k carries its own volume, so that two bars of one
\* timestamp are two bars.
HistSeries ==
    {Null} \cup
    {[bars |-> [k \in 1..Len(q) |->
                   [HistBar("A", q[k]) EXCEPT !.volume = 500 + k]]] :
     q \in SeqsUpTo(MergeInstants, MaxBars)}

\* Live buffers: bar k was the k-th accepted, one throttle window after the
\* bar before it, and carries the received_at of its message.
LiveBuffers ==
    {[k \in 1..Len(q) |->
        LiveBar([parses |-> TRUE, type |-> "ticks",
                 received_at |-> ToISOString(q[k]),
                 ticks |-> <<[last_price |-> [num |-> k]]>>],
                StartMs + k * THROTTLE_MS, "A", k)] :
     q \in SeqsUpTo(MergeInstants, MaxBars)}

InitMerge ==
    /\ now = StartMs + (MaxBars + 1) * THROTTLE_MS
    /\ mounted = TRUE
    /\ symbol = "A"
    /\ enabled \in BOOLEAN
    /\ baseSeries \in HistSeries
    /\ points \in LiveBuffers
    /\ rend = [symbol |-> symbol, enabled |-> enabled, window |-> Null]
    /\ deps = rend
    /\ dirty = TRUE
    /\ data = <<>>
    /\ todayWindow = Null
    /\ timerOn = FALSE
    /\ timerDue = 0
    /\ wsRef = 0
    /\ lastEmitMs = 0
    /\ sockets = <<>>
    /\ nAccepted = Len(points)
    /\ backfillError = Null
    /\ lastBackfill = Null
    /\ inflight = {}
    /\ lastFetch = Null
    /\ prevFetch = Null
    /\ refetchCalls = <<>>

\* The useMemo recomputes data from the inputs of the render.
Memo ==
    /\ dirty
    /\ data' = Merge(baseSeries, enabled, points)
    /\ dirty' = FALSE
    /\ UNCHANGED <<now, mounted, symbol, enabled, baseSeries, rend, deps,
                   todayWindow, timerOn, timerDue, points, wsRef, lastEmitMs,
                   sockets, nAccepted, backfillError, lastBackfill, inflight,
                   lastFetch, prevFetch>>
    /\ refetchCalls' = <<>>

NextMerge == Memo

SpecMerge == InitMerge /\ [][NextMerge]_vars


\* ------------------------------------------------------------ C3
\* The rule of the refetch decision, written out over the marker, the
\* committed render and the clock.
RuleSaysFetch ==
    \/ lastBackfill = Null
    \/ lastBackfill.symbol # rend.symbol
    \/ lastBackfill.key # rend.window.key
    \/ now - lastBackfill.atMs > COOLDOWN_MS

\* The step is a run of the backfill effect that goes past its first return.
EvaluationStep ==
    /\ EffectsStep
    /\ BackfillRuns
    /\ rend.enabled /\ rend.symbol # "" /\ rend.window # Null

\* C3: an evaluation of the backfill effect with live mode enabled, a
\* non-empty symbol and a window issues a fetch if and only if there is no
\* marker, or the marker's symbol differs, or the marker's key differs, or
\* more than 60 s have passed since the marker's time; a fetch sets the marker
\* to (symbol, key, now), no fetch leaves it alone.
C3_RefetchRule ==
    [][EvaluationStep =>
          IF RuleSaysFetch
          THEN /\ IssuedFetch
               /\ lastBackfill' = [symbol |-> rend.symbol,
                                   key |-> rend.window.key, atMs |-> now]
          ELSE IssuedNothing /\ lastBackfill' = lastBackfill]_vars

\* Two fetches in a row for the same symbol and day: the second was issued
\* by the clause on elapsed time.
C3_Witness ==
    /\ prevFetch # Null
    /\ prevFetch.symbol = lastFetch.symbol
    /\ prevFetch.key = lastFetch.key
    /\ lastFetch.atMs - prevFetch.atMs > COOLDOWN_MS
    /\ lastBackfill.atMs = lastFetch.atMs

\* ------------------------------------------------------------ C4
\* C4: two successive backfill fetches for the same symbol and the same
\* sessionKey are more than 60 s apart.  (Fetches of one symbol and one day
\* with no fetch for another symbol between them are successive, so any two
\* of them are more than 60 s apart.)
C4_RateBound ==
    (prevFetch # Null /\ prevFetch.symbol = lastFetch.symbol
                      /\ prevFetch.key = lastFetch.key)
        => lastFetch.atMs - prevFetch.atMs > COOLDOWN_MS

\* A second fetch for the same symbol and day, after the window was
\* recomputed inside the cooldown without a fetch.
C4_Witness ==
    /\ prevFetch # Null
    /\ prevFetch.symbol = lastFetch.symbol
    /\ prevFetch.key = lastFetch.key
    /\ lastFetch.atMs - prevFetch.atMs = 2 * REFRESH_MS + SmallStep
    /\ deps = rend /\ rend.enabled

\* ------------------------------------------------------------ C5
\* The committed render changed the symbol, or the day of the window, while
\* live mode stayed enabled with a window, and its symbol is not empty.
ContextChanged ==
    /\ EffectsStep
    /\ deps # NoDeps
    /\ deps.enabled /\ deps.window # Null
    /\ rend.enabled /\ rend.window # Null
    /\ rend.symbol # ""
    /\ (rend.symbol # deps.symbol \/ rend.window.key # deps.window.key)

C6_StaleDiscarded ==
    [][\A f \in inflight :
          (/\ inflight' = inflight \ {f}
           /\ mounted /\ deps = rend
           /\ (f.symbol # rend.symbol \/ ~rend.enabled))
              => backfillError' = backfillError]_vars

\* ------------------------------------------------------------ C7
\* The step tears the stream down: the effect of useLiveTicks runs again
\* (live mode toggled or the symbol changed), or the view unmounts.
TeardownStep ==
    \/ EffectsStep /\ deps # NoDeps
         /\ (deps.symbol # rend.symbol \/ deps.enabled # rend.enabled)
    \/ mounted /\ ~mounted'

\* C7: a teardown leaves the live buffer empty and no connection open or
\* connecting except the one just created for the new symbol; in every state
\* the only connection open or connecting is the one wsRef holds, and every
\* bar of the buffer came from it.
C7_TeardownStep ==
    TeardownStep =>
        /\ points' = <<>>
        /\ \A j \in DOMAIN sockets' :
              sockets'[j].readyState \in {"OPEN", "CONNECTING"}
                  => /\ j = wsRef'
                     /\ mounted' /\ rend.enabled
                     /\ sockets'[j] = [sym |-> Norm(rend.symbol),
                                       readyState |-> "CONNECTING"]

OnlyCurrentConnection ==
    /\ \A j \in DOMAIN sockets :
          sockets[j].readyState \in {"OPEN", "CONNECTING"} => j = wsRef
    /\ \A i \in DOMAIN points :
          wsRef # 0 /\ points[i].sym = sockets[wsRef].sym

C7_Teardown == []OnlyCurrentConnection /\ [][C7_TeardownStep]_vars

\* The stream accepted a tick, and was torn down: nothing is connected and
\* the buffer is empty.
C7_Witness ==
    /\ mounted /\ deps = rend
    /\ ~Connects(rend.symbol, rend.enabled)
    /\ lastEmitMs > 0
    /\ points = <<>>
    /\ sockets = <<>>

\* ------------------------------------------------------------ C8
\* C8: the merged series never holds a historical bar of one symbol and a
\* live bar of another.
C8_SymbolIsolation ==
    \A i, j \in DOMAIN data :
        (data[i].src = "hist" /\ data[j].src = "live")
            => data[i].sym = data[j].sym

\* ------------------------------------------------------------ C9
Sorted(s) ==
    \A i, j \in DOMAIN s :
        i < j => GetTime(s[i].timestamp) <= GetTime(s[j].timestamp)

\* C9: with live mode enabled the merged output is sorted by timestamp
\* ascending, for every historical series and every live buffer.
C9_MergeSorted == (enabled /\ ~dirty) => Sorted(data)

\* ------------------------------------------------------------ C10
BagOf(s) == [x \in {s[i] : i \in DOMAIN s} |->
                Cardinality({i \in DOMAIN s : s[i] = x})]

Historical == IF baseSeries = Null THEN <<>> ELSE baseSeries.bars

\* C10: with live mode enabled the merged output is a permutation of the
\* historical series followed by the live buffer: as many bars, each as
\* often as there.
C10_MergeComplete ==
    (enabled /\ ~dirty) =>
        /\ Len(data) = Len(Historical) + Len(points)
        /\ BagOf(data) = BagOf(Historical \o points)

\* A historical bar and a live bar of the same timestamp, and a live bar
\* before both: the merge reordered them and kept all three.
C10_Witness ==
    /\ enabled /\ ~dirty
    /\ Len(Historical) = 1 /\ Len(points) = 2
    /\ GetTime(points[1].timestamp) = GetTime(Historical[1].timestamp)
    /\ GetTime(points[2].timestamp) < GetTime(points[1].timestamp)
    /\ data = <<points[2], Historical[1], points[1]>>


\* ------------------------------------------------------------ C11
\* C11: with live mode disabled the merged output is the historical series
\* as it is, bar for bar, whatever the live buffer holds; with no historical
\* series it is empty.
C11_PassThrough ==
    (~enabled /\ ~dirty) =>
        /\ baseSeries = Null => data = <<>>
        /\ baseSeries # Null => data = baseSeries.bars

\* Live mode off, an unsorted historical series and a live buffer with bars:
\* the output is the historical series.
C11_Witness ==
    /\ ~enabled /\ ~dirty
    /\ Len(points) = 2
    /\ baseSeries # Null /\ Len(baseSeries.bars) = 2
    /\ GetTime(baseSeries.bars[2].timestamp) < GetTime(baseSeries.bars[1].timestamp)
    /\ data = baseSeries.bars

\* ------------------------------------------------------------ C12
DistinctTimes(s) ==
    \A i, j \in DOMAIN s :
        i # j => GetTime(s[i].timestamp) # GetTime(s[j].timestamp)

\* C12 as the specification words it: no two bars of a merged series share a
\* timestamp.
C12_NoDuplicates == ~dirty => DistinctTimes(data)

\* C12: the merge neither removes nor adds bars of equal timestamp: no two
\* bars of the merged series share a timestamp if and only if no two bars
\* of its inputs (the historical series, and with live mode enabled the
\* live buffer) do.
C12_DuplicatesKept ==
    ~dirty =>
        (DistinctTimes(data) <=>
            DistinctTimes(Historical \o (IF enabled THEN points ELSE <<>>)))

\* A historical bar and a live bar of the same timestamp, side by side in
\* the merged series.
C12_Witness ==
    /\ enabled /\ ~dirty
    /\ Len(Historical) = 1 /\ Len(points) = 1
    /\ GetTime(points[1].timestamp) = GetTime(Historical[1].timestamp)
    /\ data = <<Historical[1], points[1]>>


\* ------------------------------------------------------------ C13
\* The calendar day in Kolkata of an instant, counted from 1 January 1970.
KolkataDay(ms) == (ms + IST_OFFSET_MS) \div DAY_MS

\* Window b was computed no earlier than window a.
Stable(a, b) ==
    /\ KolkataDay(a.toMs) = KolkataDay(b.toMs)
          => (b.key = a.key /\ b.fromMs = a.fromMs)
    /\ KolkataDay(a.toMs) < KolkataDay(b.toMs)
          => (b.key # a.key /\ b.fromMs > a.fromMs)

\* C13: two windows computed on the same calendar day in Kolkata have the
\* same key and the same start; a window computed after the day rolled over
\* has another key and a later start.  (The windows compared: the one the
\* effects last saw, the one last rendered and the one last published.)
C13_WindowStable ==
    /\ (rend.window # Null /\ todayWindow # Null)
          => Stable(rend.window, todayWindow)
    /\ (deps # NoDeps /\ deps.window # Null /\ rend.window # Null)
          => Stable(deps.window, rend.window)

\* Three windows: the first two on the same day in Kolkata, UTC midnight
\* between them, with the same key; the third on the same UTC day as the
\* second and on the next day in Kolkata, with another key.
C13_Witness ==
    /\ deps # NoDeps /\ deps.window # Null /\ rend.window # Null
    /\ todayWindow # Null
    /\ KolkataDay(deps.window.toMs) = KolkataDay(rend.window.toMs)
    /\ deps.window.toMs \div DAY_MS < rend.window.toMs \div DAY_MS
    /\ deps.window.key = rend.window.key
    /\ KolkataDay(todayWindow.toMs) = KolkataDay(rend.window.toMs) + 1
    /\ todayWindow.toMs \div DAY_MS = rend.window.toMs \div DAY_MS
    /\ todayWindow.key # rend.window.key

\* ------------------------------------------------------------ C14
\* The date of January 1970 in YYYY-MM-DD.
JanuaryDate(d) ==
    IF d < 10 THEN "1970-01-0" \o ToString(d) ELSE "1970-01-" \o ToString(d)

\* C14: the start of the published window is 03:45 UTC, 09:15 in Kolkata,
\* on the calendar day in Kolkata that holds the instant it was computed at,
\* and its key is that date as YYYY-MM-DD.
C14_WindowStart ==
    todayWindow # Null =>
        LET day == KolkataDay(todayWindow.toMs)
        IN  /\ todayWindow.fromMs = day * DAY_MS + (3 * 60 + 45) * 60 * 1000
            /\ KolkataDay(todayWindow.fromMs) = day
            /\ (todayWindow.fromMs + IST_OFFSET_MS) % DAY_MS
                   = (9 * 60 + 15) * 60 * 1000
            /\ todayWindow.key = JanuaryDate(day + 1)

\* A window computed one millisecond before midnight in Kolkata on
\* 9 January: the start is that day's opening, hours before.
C14_Witness ==
    /\ todayWindow # Null
    /\ todayWindow.toMs = 8 * DAY_MS + (DAY_MS - IST_OFFSET_MS - 1)
    /\ todayWindow.key = "1970-01-09"
    /\ todayWindow.fromMs = 8 * DAY_MS + OPEN_UTC_MS


\* ------------------------------------------------------------ C15
\* The effects run for a render that turned live mode on.
EnableStep ==
    EffectsStep /\ rend.enabled /\ (deps = NoDeps \/ ~deps.enabled)

\* The interval callback runs: the window changes outside the effects.
IntervalStep == todayWindow' # todayWindow /\ deps' = deps

PublishesOnEnable ==
    EnableStep =>
        /\ todayWindow' # Null /\ todayWindow'.toMs = now
        /\ timerOn' /\ timerDue' = now + REFRESH_MS

PublishesOnInterval ==
    IntervalStep =>
        /\ timerOn /\ now >= timerDue
        /\ todayWindow' # Null /\ todayWindow'.toMs = now
        /\ timerOn' /\ timerDue' = now + REFRESH_MS
        /\ rend' = rend

IntervalArmed ==
    (mounted /\ deps # NoDeps /\ deps.enabled) =>
        /\ todayWindow # Null
        /\ timerOn /\ timerDue <= todayWindow.toMs + REFRESH_MS

\* C15: the effects of the render that turns live mode on publish a window
\* computed at that instant and set the interval; while live mode stays on
\* the interval is set, due 30 s after the last publication, and its
\* callback publishes a window computed at the instant it runs; a
\* publication is a new value and leaves the window already rendered as it
\* was.
C15_WindowPublication ==
    /\ []IntervalArmed
    /\ [][PublishesOnEnable /\ PublishesOnInterval]_vars

\* The window of the enabling instant was rendered and the interval has
\* since published the next one, 30 s later; the interval is due again.
C15_Witness ==
    /\ mounted /\ deps # NoDeps /\ deps.enabled
    /\ rend.window # Null /\ rend.window.toMs = StartMs
    /\ todayWindow # Null /\ todayWindow.toMs = StartMs + REFRESH_MS
    /\ timerOn /\ timerDue = StartMs + 2 * REFRESH_MS

\* ------------------------------------------------------------ C16
\* The effects run for a render that turned live mode off.
DisableStep ==
    EffectsStep /\ ~rend.enabled /\ deps # NoDeps /\ deps.enabled

NoWindowWhileDisabled ==
    (deps = NoDeps \/ ~deps.enabled) => (todayWindow = Null /\ ~timerOn)

\* C16: the effects of the render that turns live mode off publish null and
\* clear the interval; from then until the effects of a render that turns
\* live mode on, the published window is null and no interval is set, so no
\* callback of an earlier interval publishes a window.
C16_WindowOnDisable ==
    /\ []NoWindowWhileDisabled
    /\ [][(DisableStep => (todayWindow' = Null /\ ~timerOn'))
          /\ (~timerOn => (todayWindow' # todayWindow => EffectsStep))]_vars

\* Live mode was on long enough to fetch, then went off; more than one
\* interval has passed since and no window is published.
C16_Witness ==
    /\ mounted /\ deps # NoDeps /\ ~deps.enabled /\ deps = rend
    /\ lastBackfill # Null
    /\ now - lastBackfill.atMs >= 2 * REFRESH_MS
    /\ todayWindow = Null /\ ~timerOn


\* ------------------------------------------------------------ C17
\* The connection wsRef holds has failed or was closed by the server.
Failed == wsRef # 0 /\ sockets[wsRef].readyState = "CLOSED"

\* The caller changed neither enabled nor symbol and the view stays mounted:
\* no effect runs in the step.
CallerQuiet == deps' = deps /\ mounted' = mounted

\* The step is the failure of the connection wsRef holds.
FailureStep ==
    /\ CallerQuiet
    /\ wsRef # 0 /\ sockets[wsRef].readyState \in {"OPEN", "CONNECTING"}
    /\ sockets'[wsRef].readyState = "CLOSED"

\* C17: the failure of the live connection opens no connection, keeps the
\* bars of the buffer and sets no error; from then on, until the effects run
\* for a changed symbol or enabled (or the view unmounts), no connection is
\* opened and the buffer stays as it is.
C17_NoReconnect ==
    [][/\ FailureStep =>
             /\ wsRef' = wsRef /\ Len(sockets') = Len(sockets)
             /\ points' = points /\ backfillError' = backfillError
       /\ (Failed /\ CallerQuiet) =>
             /\ sockets' = sockets /\ wsRef' = wsRef
             /\ points' = points /\ backfillError' = backfillError]_vars

\* The connection failed with a bar in the buffer; two throttle windows
\* later the bar is still there and nothing is connected.
C17_Witness ==
    /\ mounted /\ deps = rend /\ Failed
    /\ Len(sockets) = 1
    /\ Len(points) = 1
    /\ now - lastEmitMs >= 2 * THROTTLE_MS


\* ------------------------------------------------------------ C18
\* The message is one to drop: not JSON, not of type 'ticks', with no tick,
\* or with a first tick whose last_price is absent, null, empty or not
\* numeric.
Rejectable(m) ==
    \/ ~m.parses
    \/ "type" \notin DOMAIN m
    \/ m.type # "ticks"
    \/ "ticks" \notin DOMAIN m
    \/ m.ticks = <<>>
    \/ "last_price" \notin DOMAIN m.ticks[1]
    \/ m.ticks[1].last_price = Null
    \/ /\ "str" \in DOMAIN m.ticks[1].last_price
       /\ m.ticks[1].last_price.str \in {"", "abc"}

\* C18: a message to drop changes nothing: no bar is appended, the throttle
\* is not taken, nothing is raised.
C18_InvalidDropped ==
    [][\A i \in DOMAIN sockets : \A m \in AllMessages(now) :
          (Rejectable(m) /\ OnMessage(i, m)) => UNCHANGED vars]_vars

\* ------------------------------------------------------------ C19
\* The message carries a price: a number, or a string that spells one.
Priced(m) ==
    /\ ~Rejectable(m)
    /\ \/ "num" \in DOMAIN m.ticks[1].last_price
       \/ m.ticks[1].last_price = [str |-> "2"]

PriceOf(m) ==
    IF "num" \in DOMAIN m.ticks[1].last_price
    THEN m.ticks[1].last_price.num ELSE 2

\* C19: a bar appended to the live buffer is the bar of a message with a
\* price: open, high, low and close are the last_price of its first tick,
\* it has no volume, and its timestamp is the received_at of the message, or
\* the client's clock when the message has none.
C19_BarSynthesis ==
    [][(points' # points /\ points' # <<>>) =>
          LET b == points'[Len(points')]
          IN  \E m \in AllMessages(now) :
                 /\ Priced(m)
                 /\ b.open = PriceOf(m) /\ b.high = PriceOf(m)
                 /\ b.low = PriceOf(m) /\ b.close = PriceOf(m)
                 /\ b.volume = Null
                 /\ b.timestamp = (IF m.received_at # Null THEN m.received_at
                                   ELSE ToISOString(now))]_vars

\* ------------------------------------------------------------ C20
\* A fetch that was pending settles in this step.
SettleStep(f) == f \in inflight /\ inflight' = inflight \ {f}

\* C20: every backfill fetch that settles, with or without an error, in a
\* mounted or an unmounted view, current or stale, is followed by exactly
\* one call of refetchBase, made by the continuation of that fetch; no other
\* step calls refetchBase.
C20_RefreshAfterBackfill ==
    [][ /\ \A f \in inflight :
             SettleStep(f) =>
                 \E o \in Outcomes :
                     refetchCalls' = <<[fn |-> "refetchBase", fetch |-> f,
                                        after |-> o]>>
        /\ (~ \E f \in inflight : SettleStep(f)) => refetchCalls' = <<>>
      ]_vars

\* A fetch settled with an error: the error is published and refetchBase
\* was called once for it.
C20_Witness ==
    /\ Len(refetchCalls) = 1
    /\ backfillError = ErrorOf(refetchCalls[1].fetch)

\* ------------------------------------------------------------ C21
\* The fetch f settled in this step with the outcome o.
SettledWith(f, o) ==
    /\ SettleStep(f)
    /\ Len(refetchCalls') = 1
    /\ refetchCalls'[1].fetch = f /\ refetchCalls'[1].after = o

\* C21: in a mounted view a fetch that settles with an error makes that
\* error the exposed backfillError, and one that settles without makes it
\* null; and an exposed failure does not hold back the next attempt: an
\* evaluation more than 60 s after the last trigger issues a fetch while the
\* error is exposed.
C21_FailureHandling ==
    [][ /\ \A f \in inflight :
             /\ (mounted /\ SettledWith(f, "error"))
                    => backfillError' = ErrorOf(f)
             /\ (mounted /\ SettledWith(f, "ok")) => backfillError' = Null
        /\ (/\ EvaluationStep
            /\ backfillError # Null
            /\ lastBackfill # Null
            /\ now - lastBackfill.atMs > COOLDOWN_MS) => IssuedFetch
      ]_vars

\* The fetch for a symbol failed and its error is exposed; more than 60 s
\* after it the next fetch for the same symbol and day is on its way.
C21_Witness ==
    /\ prevFetch # Null
    /\ prevFetch.symbol = lastFetch.symbol /\ prevFetch.key = lastFetch.key
    /\ lastFetch.atMs - prevFetch.atMs > COOLDOWN_MS
    /\ backfillError = ErrorOf(Pending(lastFetch))
    /\ Pending(lastFetch) \in inflight

\* ------------------------------------------------------------ C22
\* The evaluation with the first window after live mode was enabled: the
\* effects last ran with live mode on and no window yet.
StartStep == EvaluationStep /\ deps # NoDeps /\ deps.window = Null

\* The fetch issued last was for the symbol and the day of the committed
\* render and at most 60 s ago.
FetchedLately ==
    /\ lastFetch # Null
    /\ lastFetch.symbol = rend.symbol
    /\ lastFetch.key = rend.window.key
    /\ now - lastFetch.atMs <= COOLDOWN_MS

\* C22 as the claim words it: every time live mode goes from disabled to
\* enabled for a non-empty symbol, the evaluation with the first window
\* issues a fetch for that symbol, also less than 60 s after the previous
\* fetch for the same symbol and day.
C22_FetchOnStart == [][StartStep => IssuedFetch]_vars

\* C22: every time live mode goes from disabled to enabled for a non-empty
\* symbol, the evaluation with the first window issues a fetch for that
\* symbol, unless the fetch issued last was for the same symbol and day and
\* at most 60 s ago: then it issues none.
C22_FetchOnStartRule ==
    [][StartStep => IF FetchedLately THEN IssuedNothing ELSE IssuedFetch]_vars

\* Live mode was switched off and on again and the first window is
\* rendered: the evaluation is due (the effects last ran without a window),
\* and the fetch issued last is an earlier one for the same symbol and day
\* inside its cooldown.
C22_Witness ==
    /\ mounted /\ deps # rend /\ BackfillRuns
    /\ deps # NoDeps /\ deps.window = Null
    /\ rend.enabled /\ rend.symbol # "" /\ rend.window # Null
    /\ FetchedLately
    /\ lastFetch.atMs < now

\* ------------------------------------------------------------ C23
\* The marker is the context of the fetch triggered last.
MarkerIsLastTrigger ==
    IF lastFetch = Null THEN lastBackfill = Null
    ELSE lastBackfill = [symbol |-> lastFetch.symbol, key |-> lastFetch.key,
                         atMs |-> lastFetch.atMs]

\* An evaluation for the symbol and day of a fetch that is still pending,
\* at most 60 s after it was triggered.
EvaluationInFlight ==
    /\ EvaluationStep
    /\ lastFetch # Null
    /\ Pending(lastFetch) \in inflight
    /\ lastFetch.symbol = rend.symbol /\ lastFetch.key = rend.window.key
    /\ now - lastFetch.atMs <= COOLDOWN_MS

\* C23: the marker is written in the step that triggers the fetch, before
\* the fetch settles: at every moment it is the symbol, the day and the time
\* of the fetch triggered last, and an evaluation for the same symbol and
\* day while that fetch is pending and at most 60 s old issues no fetch.
C23_MarkerBeforeResolution ==
    /\ []MarkerIsLastTrigger
    /\ [][EvaluationInFlight => IssuedNothing]_vars

\* The window was recomputed after the trigger and the effect ran with it
\* while the fetch was pending: the marker is still the one of the trigger.
C23_Witness ==
    /\ mounted /\ deps = rend
    /\ rend.enabled /\ rend.symbol # "" /\ rend.window # Null
    /\ lastFetch # Null
    /\ Pending(lastFetch) \in inflight
    /\ lastFetch.symbol = rend.symbol /\ lastFetch.key = rend.window.key
    /\ rend.window.toMs = now /\ lastFetch.atMs < now
    /\ now - lastFetch.atMs <= COOLDOWN_MS
    /\ lastBackfill.atMs = lastFetch.atMs

\* ------------------------------------------------------------ C24
\* The handler rejects the message: the validation returns, or less than
\* 1000 ms have passed since the last accepted sample.
Rejected(m) == ~Valid(m) \/ now - lastEmitMs < THROTTLE_MS

\* C24: a message the validation or the throttle rejects leaves the live
\* buffer and the last-emit time as they are, and outside the effects the
\* buffer only changes in the step that accepts a sample.
C24_DroppedNoEffect ==
    [][ /\ \A i \in DOMAIN sockets : \A m \in AllMessages(now) :
             (OnMessage(i, m) /\ Rejected(m))
                 => UNCHANGED <<points, lastEmitMs>>
        /\ (~EffectsStep /\ points' # points)
               => /\ nAccepted' = nAccepted + 1
                  /\ lastEmitMs' = now
                  /\ \E i \in DOMAIN sockets : \E m \in AllMessages(now) :
                         OnMessage(i, m) /\ ~Rejected(m)
      ]_vars

\* The buffer holds a bar and the connection is open inside the throttle
\* window of that bar: every message that arrives now is rejected.
C24_Witness ==
    /\ mounted
    /\ Len(points) >= 1
    /\ wsRef # 0 /\ sockets[wsRef].readyState = "OPEN"
    /\ now > lastEmitMs /\ now - lastEmitMs < THROTTLE_MS

\* ------------------------------------------------------------ C25
\* C25: once every fetch has settled, backfillError is the outcome of the
\* fetch triggered last: null if it succeeded, its error if it failed.  So
\* with nothing pending, in a view whose effects have run with live mode
\* on, a symbol and a window, backfillError is null or the error of the
\* fetch triggered last, never the error of an earlier fetch.
C25_LastErrorLastAttempt ==
    (/\ mounted /\ deps = rend
     /\ rend.enabled /\ rend.symbol # "" /\ rend.window # Null
     /\ lastFetch # Null
     /\ inflight = {})
        => backfillError \in {Null, ErrorOf(Pending(lastFetch))}

\* ------------------------------------------------------------ the connections alone
\* The symbols as the caller may type them: also blank, and in lower case.
RawSymbols == Symbols \cup {" ", "a"}

\* The connections of the stream: the caller with every symbol, live mode
\* on and off, the renders and effects, the transport opening and failing,
\* and the unmount; the clock stands and no message arrives.
NextConnect ==
    \/ \E s \in RawSymbols : SetSymbol(s)
    \/ ToggleLive
    \/ Render
    \/ Effects
    \/ \E i \in DOMAIN sockets : SocketOpen(i)
    \/ \E i \in DOMAIN sockets : SocketFail(i)
    \/ Unmount

SpecConnect == Init /\ [][NextConnect]_vars

\* ------------------------------------------------------------ C26
\* The connections that are open or connecting.
LiveSockets(socks) ==
    {j \in DOMAIN socks : socks[j].readyState \in {"OPEN", "CONNECTING"}}

\* The effect of useLiveTicks ran (its dependencies changed) and wsRef holds
\* a socket after it: the run constructed that socket.
ConnectStep ==
    /\ EffectsStep
    /\ (deps = NoDeps \/ deps.symbol # rend.symbol
                      \/ deps.enabled # rend.enabled)
    /\ wsRef' # 0

\* C26: at most one connection is open or connecting; a connection is
\* constructed only with live mode on and a symbol that is not blank, the
\* connection before it is closed by then (the new one is the only one open
\* or connecting), and no other step adds a connection.
C26_SingleConnection ==
    /\ [](Cardinality(LiveSockets(sockets)) <= 1)
    /\ [][ /\ ConnectStep =>
                 /\ rend.enabled /\ Norm(rend.symbol) # ""
                 /\ LiveSockets(sockets') = {wsRef'}
                 /\ sockets'[wsRef'] = [sym |-> Norm(rend.symbol),
                                        readyState |-> "CONNECTING"]
           /\ ~ConnectStep =>
                 Cardinality(LiveSockets(sockets'))
                     <= Cardinality(LiveSockets(sockets))
         ]_vars

\* The caller typed the symbol of the open connection in lower case: the
\* effect ran again, and the one connection is a new one, still connecting.
C26_Witness ==
    /\ mounted /\ deps = rend
    /\ rend.enabled /\ rend.symbol = "a"
    /\ prevFetch # Null /\ prevFetch.symbol = "A" /\ lastFetch.symbol = "a"
    /\ LiveSockets(sockets) = {wsRef}
    /\ sockets[wsRef] = [sym |-> "A", readyState |-> "CONNECTING"]

\* ------------------------------------------------------------ C27
\* C27: every bar of the live buffer comes from a message received on the
\* connection wsRef holds, and that connection is the one for the symbol of
\* the view, with live mode on.
C27_BufferProvenance ==
    \A i \in DOMAIN points :
        /\ wsRef # 0
        /\ points[i].sym = sockets[wsRef].sym
        /\ rend.enabled
        /\ points[i].sym = Norm(rend.symbol)

\* ------------------------------------------------------------ C28
\* C28: whenever the effect of the coordinator has run with live mode off,
\* with an empty symbol or without a window, backfillError is null, also
\* after a fetch that was pending then settles with an error.
C28_NoErrorWhileInactive ==
    (/\ mounted /\ deps = rend
     /\ (~rend.enabled \/ rend.symbol = "" \/ rend.window = Null))
        => backfillError = Null

\* ------------------------------------------------------------ C29
\* C29: the window starts no later than it ends, whenever it is computed,
\* and so does the range of every fetch.
C29_WellFormedWindow ==
    /\ todayWindow # Null => todayWindow.fromMs <= todayWindow.toMs
    /\ lastFetch # Null => lastFetch.from_date <= lastFetch.to_date

\* ------------------------------------------------------------ C30
\* The inputs of a merge in the order of the concatenation.
MergeInputs == Historical \o points

\* The place of input k in a stable ascending order: after every input of
\* an earlier timestamp and after every earlier input of the same timestamp.
StableRank(k) ==
    1 + Cardinality({j \in DOMAIN MergeInputs :
            \/ GetTime(MergeInputs[j].timestamp) < GetTime(MergeInputs[k].timestamp)
            \/ /\ GetTime(MergeInputs[j].timestamp) = GetTime(MergeInputs[k].timestamp)
               /\ j < k})

\* C30: a merge of historical and live bars is stable: among bars of equal
\* timestamp the historical ones come before the live ones and bars of one
\* provenance keep the order they had; and computing it leaves the
\* historical series and the live buffer as they were.
C30_StableMerge ==
    /\ [](( ~dirty /\ enabled /\ points # <<>>) =>
            /\ Len(data) = Len(MergeInputs)
            /\ \A k \in DOMAIN MergeInputs : data[StableRank(k)] = MergeInputs[k])
    /\ [][UNCHANGED <<baseSeries, points>>]_vars

\* Two live bars of one timestamp, a historical bar of the same timestamp
\* behind a later one: the merge moved the early historical bar to the
\* front and the live bars, in their order, behind it.
C30_Witness ==
    /\ enabled /\ ~dirty
    /\ Len(Historical) = 2 /\ Len(points) = 2
    /\ GetTime(Historical[1].timestamp) > GetTime(Historical[2].timestamp)
    /\ GetTime(points[1].timestamp) = GetTime(Historical[2].timestamp)
    /\ GetTime(points[2].timestamp) = GetTime(Historical[2].timestamp)
    /\ data = <<Historical[2], points[1], points[2], Historical[1]>>

=============================================================================
